---- MODULE Spec2Model ----
(***************************************************************************)
(* hunter_controller::Odometry (src/hunter_controller/src/odometry.cpp).   *)
(*                                                                         *)
(* Units.  Time is counted in ticks, TicksPerSec ticks to the second, so   *)
(* that the rejection threshold 0.0001 s of update is MinDt ticks.  Angles *)
(* are counted in angle units, AngPerRad units to the radian, so that the  *)
(* branch threshold 1e-6 rad of integrateExact is AngEps units.  Lengths   *)
(* are in metres.  Doubles are modelled as extended rationals (exact       *)
(* arithmetic plus +Inf, -Inf and NaN for division by zero); rounding and  *)
(* the sign of zero are not modelled.  sin and cos are kept uninterpreted: *)
(* x_ and y_ are finite sums  c1*f1(a1) + ... + cn*fn(an)  with rational   *)
(* coefficients, fi in {sin, cos} and the angles ai in angle units.        *)
(***************************************************************************)
EXTENDS Integers, Sequences, FiniteSets, TLC

\* ---- bounds of the model ------------------------------------------------
MaxTime == 2        \* timestamps handed to the estimator are 0..MaxTime ticks
MaxSteps == 3       \* calls made on one estimator
MaxWindow == 2      \* rolling window sizes are 1..MaxWindow

\* ---- program constants ---------------------------------------------------
MinDt == 2          \* 0.0001 s, in ticks            (odometry.cpp:59)
AngEps == 2         \* 1e-6 rad, in angle units      (odometry.cpp:130)
TicksPerSec == 10000 * MinDt
AngPerRad == 1000000 * AngEps

\* ---- extended rationals: <<n, d>>, d > 0 in lowest terms; ----------------
\* ---- <<1,0>> = +Inf, <<-1,0>> = -Inf, <<0,0>> = NaN ------------------------
RECURSIVE GCD(_, _)
GCD(a, b) == IF b = 0 THEN a ELSE GCD(b, a % b)

Abs(i) == IF i < 0 THEN -i ELSE i
Sign(i) == IF i < 0 THEN -1 ELSE IF i > 0 THEN 1 ELSE 0

Norm(n, d) ==
  LET g == GCD(Abs(n), Abs(d))
      s == IF d < 0 THEN -1 ELSE 1
  IN  << (s * n) \div g, (s * d) \div g >>

Num(i) == << i, 1 >>
Zero == << 0, 1 >>
NaN == << 0, 0 >>
IsNaN(a) == a = NaN
IsInf(a) == a[2] = 0 /\ a[1] # 0
IsFinite(a) == a[2] > 0

Neg(a) == << -a[1], a[2] >>

Add(a, b) ==
  IF IsNaN(a) \/ IsNaN(b) THEN NaN
  ELSE IF IsInf(a) /\ IsInf(b) THEN (IF a = b THEN a ELSE NaN)
  ELSE IF IsInf(a) THEN a
  ELSE IF IsInf(b) THEN b
  ELSE Norm(a[1] * b[2] + b[1] * a[2], a[2] * b[2])

Sub(a, b) == Add(a, Neg(b))

Mul(a, b) ==
  IF IsNaN(a) \/ IsNaN(b) THEN NaN
  ELSE IF IsInf(a) \/ IsInf(b)
       THEN (IF a[1] = 0 \/ b[1] = 0 THEN NaN
             ELSE << Sign(a[1]) * Sign(b[1]), 0 >>)
  ELSE Norm(a[1] * b[1], a[2] * b[2])

\* IEEE division: x/0 is an infinity of x's sign, 0/0 and Inf/Inf are NaN.
Div(a, b) ==
  IF IsNaN(a) \/ IsNaN(b) THEN NaN
  ELSE IF IsInf(b) THEN (IF IsInf(a) THEN NaN ELSE Zero)
  ELSE IF b[1] = 0 THEN (IF a[1] = 0 THEN NaN ELSE << Sign(a[1]), 0 >>)
  ELSE IF IsInf(a) THEN << Sign(a[1]) * Sign(b[1]), 0 >>
  ELSE Norm(a[1] * b[2], a[2] * b[1])

\* a < b on finite values
Less(a, b) == a[1] * b[2] < b[1] * a[2]
Fabs(a) == << Abs(a[1]), a[2] >>

\* ---- sums of uninterpreted sin/cos terms -----------------------------------
\* A sum is a set of terms [f, a, c] (c * f(a)), one per (f, a), c # 0,
\* a >= 0 (sin(-a) = -sin(a), cos(-a) = cos(a)) and no sin(0) term (= 0).
NoTerms == {}

AddTerm(S, c, f, a) ==
  LET neg == Less(a, Zero)
      a1 == IF neg THEN Neg(a) ELSE a
      c1 == IF neg /\ f = "sin" THEN Neg(c) ELSE c
      old == { t \in S : t.f = f /\ t.a = a1 }
      oc == IF old = {} THEN Zero ELSE (CHOOSE t \in old : TRUE).c
      nc == Add(oc, c1)
  IN  IF f = "sin" /\ a1 = Zero THEN S
      ELSE IF nc = Zero THEN S \ old
      ELSE (S \ old) \cup { [f |-> f, a |-> a1, c |-> nc] }

\* ---- RollingMeanAccumulator (spec section 4.1) ------------------------------
\* cap: capacity; buf: the samples held, oldest first; sum: the running sum;
\* count: the samples inserted since construction.
RollingMeanAccumulator(n) ==
  [cap |-> n, buf |-> << >>, sum |-> Zero, count |-> 0]

accumulate(acc, sample) ==
  LET full == Len(acc.buf) >= acc.cap
      kept == IF full THEN Tail(acc.buf) ELSE acc.buf
      sum1 == IF full THEN Sub(acc.sum, Head(acc.buf)) ELSE acc.sum
  IN  [acc EXCEPT !.buf = Append(kept, sample),
                  !.sum = Add(sum1, sample),
                  !.count = @ + 1]

getRollingMean(acc) ==
  LET n == IF acc.count < acc.cap THEN acc.count ELSE acc.cap
  IN  IF n = 0 THEN Zero ELSE Div(acc.sum, Num(n))

\* ---- Odometry ------------------------------------------------------------------
\* Odometry::Odometry(velocity_rolling_window_size)
Odometry(velocity_rolling_window_size) ==
  [ timestamp_ |-> 0,
    x_ |-> NoTerms,
    y_ |-> NoTerms,
    heading_ |-> Zero,
    linear_ |-> Zero,
    angular_ |-> Zero,
    wheel_separation_ |-> Zero,
    left_wheel_radius_ |-> Zero,
    right_wheel_radius_ |-> Zero,
    left_wheel_old_pos_ |-> Zero,
    right_wheel_old_pos_ |-> Zero,
    linear_old_pos_ |-> Zero,
    angular_old_pos_ |-> Zero,
    velocity_rolling_window_size_ |-> velocity_rolling_window_size,
    linear_accumulator_ |-> RollingMeanAccumulator(velocity_rolling_window_size),
    angular_accumulator_ |-> RollingMeanAccumulator(velocity_rolling_window_size) ]

\* 0.0001 s
MinDtSec == Div(Num(MinDt), Num(TicksPerSec))

\* time.seconds() - timestamp_.seconds(), in seconds
Seconds(time, timestamp) == Div(Num(time - timestamp), Num(TicksPerSec))

resetAccumulators(o) ==
  [o EXCEPT !.linear_accumulator_ =
               RollingMeanAccumulator(o.velocity_rolling_window_size_),
            !.angular_accumulator_ =
               RollingMeanAccumulator(o.velocity_rolling_window_size_)]

\* init without the timestamp assignment
init_NoTimestamp(o, time) ==
  resetAccumulators(o)

init(o, time) ==
  [resetAccumulators(o) EXCEPT !.timestamp_ = time]

integrateRungeKutta2(o, linear, angular) ==
  LET direction == Add(o.heading_, Div(angular, Num(2)))
  IN  [o EXCEPT !.x_ = AddTerm(@, linear, "cos", direction),
                !.y_ = AddTerm(@, linear, "sin", direction),
                !.heading_ = Add(@, angular)]

integrateExact(o, linear, angular) ==
  IF Less(Fabs(angular), Num(AngEps))
  THEN integrateRungeKutta2(o, linear, angular)
  ELSE LET heading_old == o.heading_
           \* linear / angular with angular in radians
           r == Div(Mul(linear, Num(AngPerRad)), angular)
           heading_new == Add(o.heading_, angular)
       IN  [o EXCEPT !.heading_ = heading_new,
                     !.x_ = AddTerm(AddTerm(@, r, "sin", heading_new),
                                    Neg(r), "sin", heading_old),
                     !.y_ = AddTerm(AddTerm(@, Neg(r), "cos", heading_new),
                                    r, "cos", heading_old)]

\* updateFromVelocity with the rejection threshold of update
updateFromVelocity_Guarded(o, linear_vel, angular_vel, time) ==
  LET dt == Seconds(time, o.timestamp_)
      o1 == integrateExact(o, linear_vel, angular_vel)
      lacc == accumulate(o1.linear_accumulator_, Div(linear_vel, dt))
      aacc == accumulate(o1.angular_accumulator_, Div(angular_vel, dt))
  IN  IF Less(dt, MinDtSec)
      THEN o
      ELSE [o1 EXCEPT !.timestamp_ = time,
                      !.linear_accumulator_ = lacc,
                      !.angular_accumulator_ = aacc,
                      !.linear_ = getRollingMean(lacc),
                      !.angular_ = getRollingMean(aacc)]

updateFromVelocity(o, linear_vel, angular_vel, time) ==
  LET dt == Seconds(time, o.timestamp_)
      o1 == integrateExact(o, linear_vel, angular_vel)
      lacc == accumulate(o1.linear_accumulator_, Div(linear_vel, dt))
      aacc == accumulate(o1.angular_accumulator_, Div(angular_vel, dt))
  IN  [o1 EXCEPT !.timestamp_ = time,
                 !.linear_accumulator_ = lacc,
                 !.angular_accumulator_ = aacc,
                 !.linear_ = getRollingMean(lacc),
                 !.angular_ = getRollingMean(aacc)]

\* update feeding the velocity step without the dt guard
update_Unguarded(o, linear_pos, angular_pos, time) ==
  updateFromVelocity(
    [o EXCEPT !.linear_old_pos_ = linear_pos, !.angular_old_pos_ = angular_pos],
    Sub(linear_pos, o.linear_old_pos_),
    Sub(angular_pos, o.angular_old_pos_),
    time)

\* The block opened at line 60 is closed at line 67 only: the call of
\* updateFromVelocity and "return true" (lines 64-66) follow "return false"
\* inside it and are never executed.  With dt >= 0.0001 control skips the
\* block and reaches the end of the function (line 68).
update(o, linear_pos, angular_pos, time) ==
  LET o1 == [o EXCEPT !.linear_old_pos_ = linear_pos,
                      !.angular_old_pos_ = angular_pos]
      dt == Seconds(time, o.timestamp_)
  IN  IF Less(dt, MinDtSec)
      THEN o1    \* return false
      ELSE o1    \* end of the function

\* The values update can hand back: false from line 61; flowing off the end
\* of a bool function is undefined, the caller may see either value.
updateReturns(o, time) ==
  IF Less(Seconds(time, o.timestamp_), MinDtSec)
  THEN {FALSE}
  ELSE BOOLEAN

\* line 81
updateFromVelocityReturns(o, time) == {TRUE}

\* updateOpenLoop measuring dt after the timestamp is overwritten
updateOpenLoop_StaleDt(o, linear, angular, time) ==
  LET o1 == [o EXCEPT !.linear_ = linear,
                      !.angular_ = angular,
                      !.timestamp_ = time]
      dt == Seconds(time, o1.timestamp_)
  IN  integrateExact(o1, Mul(linear, dt), Mul(angular, dt))

updateOpenLoop(o, linear, angular, time) ==
  LET dt == Seconds(time, o.timestamp_)
      o1 == [o EXCEPT !.linear_ = linear,
                      !.angular_ = angular,
                      !.timestamp_ = time]
  IN  integrateExact(o1, Mul(linear, dt), Mul(angular, dt))

\* resetOdometry clearing the velocity state as well
resetOdometry_AndVelocity(o) ==
  [o EXCEPT !.x_ = NoTerms, !.y_ = NoTerms, !.heading_ = Zero,
            !.linear_ = Zero, !.angular_ = Zero]

resetOdometry(o) ==
  [o EXCEPT !.x_ = NoTerms, !.y_ = NoTerms, !.heading_ = Zero]

setWheelParams(o, wheel_separation, left_wheel_radius, right_wheel_radius) ==
  [o EXCEPT !.wheel_separation_ = wheel_separation,
            !.left_wheel_radius_ = left_wheel_radius,
            !.right_wheel_radius_ = right_wheel_radius]

\* setVelocityRollingWindowSize without the resetAccumulators call
setVelocityRollingWindowSize_NoReset(o, velocity_rolling_window_size) ==
  [o EXCEPT !.velocity_rolling_window_size_ = velocity_rolling_window_size]

setVelocityRollingWindowSize(o, velocity_rolling_window_size) ==
  resetAccumulators(
    [o EXCEPT !.velocity_rolling_window_size_ = velocity_rolling_window_size])

\* ---- the estimator and its caller ------------------------------------------------
VARIABLES
  odom,        \* the Odometry object
  call,        \* the last call made on it: name, arguments, dt in ticks, result
  steps,       \* calls made so far
  headingSum,  \* sum of the angular deltas of the motion calls since the
               \* construction or the last resetOdometry
  zeroRun,     \* length of the current run of accepted zero-motion ticks
  lastTick     \* timestamp of the previous tick of that run

vars == << odom, call, steps, headingSum, zeroRun, lastTick >>

Times == 0 .. MaxTime
Windows == 1 .. MaxWindow
\* (linear, angular) inputs of updateFromVelocity: rest, a turn below the
\* 1e-6 rad threshold of integrateExact, a turn at the threshold
Motions == { << 0, 0 >>, << 1, 1 >>, << 1, 2 >> }
\* cumulative (linear, angular) positions handed to update
Positions == { << 0, 0 >>, << 1, 2 >> }
\* commanded (linear, angular) velocities of updateOpenLoop, per tick
Commands == { << 1, 1 >> }
WheelParams == { << 3, 1, 1 >> }

\* groups of fields
Pose(o) == << o.x_, o.y_, o.heading_ >>
Velocity(o) == << o.linear_, o.angular_ >>
Accumulators(o) == << o.linear_accumulator_, o.angular_accumulator_ >>
PreviousSample(o) ==
  << o.linear_old_pos_, o.angular_old_pos_,
     o.left_wheel_old_pos_, o.right_wheel_old_pos_ >>
WheelParamsOf(o) ==
  << o.wheel_separation_, o.left_wheel_radius_, o.right_wheel_radius_ >>

Recreating == { "init", "setVelocityRollingWindowSize" }

\* The record of a call: its name and arguments, dt = time - timestamp_ in
\* ticks as the call computes it, its result, whether it changed the pose,
\* the name of the call before it, and the number of samples the last
\* recreation of the accumulators threw away (kept for one more call).
Call(name, lin, ang, time, ret) ==
  [name |-> name, lin |-> lin, ang |-> ang, time |-> time,
   dt |-> time - odom.timestamp_, ret |-> ret,
   moved |-> Pose(odom') # Pose(odom),
   prev |-> call.name,
   dropped |-> IF name \in Recreating THEN odom.linear_accumulator_.count
               ELSE IF call.name \in Recreating THEN call.dropped
               ELSE 0]

Init ==
  /\ odom = Odometry(MaxWindow)
  /\ call = [name |-> "Odometry", lin |-> Zero, ang |-> Zero, time |-> 0,
             dt |-> 0, ret |-> "void", moved |-> FALSE, prev |-> "none",
             dropped |-> 0]
  /\ steps = 0
  /\ headingSum = Zero
  /\ zeroRun = 0
  /\ lastTick = 0

InitCall ==
  \E time \in Times :
    /\ steps < MaxSteps
    /\ odom' = init(odom, time)
    /\ call' = Call("init", Zero, Zero, time, "void")
    /\ steps' = steps + 1
    /\ zeroRun' = 0
    /\ UNCHANGED << headingSum, lastTick >>

\* a tick continues the run of zero-motion ticks when it is accepted
\* (dt >= 0.0001) and at least 0.0001 s later than the previous tick of the run
RunAfter(zero, time) ==
  IF zero /\ time - odom.timestamp_ >= MinDt
  THEN (IF zeroRun > 0 /\ time - lastTick >= MinDt THEN zeroRun + 1 ELSE 1)
  ELSE 0

Update ==
  \E m \in Positions, time \in Times :
    \E ret \in updateReturns(odom, time) :
      LET linear_pos == Num(m[1])
          angular_pos == Num(m[2])
          d_ang == Sub(angular_pos, odom.angular_old_pos_)
          zero == linear_pos = odom.linear_old_pos_
                  /\ angular_pos = odom.angular_old_pos_
      IN  /\ steps < MaxSteps
          /\ odom' = update(odom, linear_pos, angular_pos, time)
          /\ call' = Call("update", linear_pos, angular_pos, time, ret)
          /\ steps' = steps + 1
          /\ headingSum' = IF time - odom.timestamp_ >= MinDt
                           THEN Add(headingSum, d_ang) ELSE headingSum
          /\ zeroRun' = RunAfter(zero, time)
          /\ lastTick' = time

UpdateFromVelocity ==
  \E m \in Motions, time \in Times :
    \E ret \in updateFromVelocityReturns(odom, time) :
    LET linear_vel == Num(m[1])
        angular_vel == Num(m[2])
    IN  /\ steps < MaxSteps
        /\ odom' = updateFromVelocity(odom, linear_vel, angular_vel, time)
        /\ call' = Call("updateFromVelocity", linear_vel, angular_vel, time, ret)
        /\ steps' = steps + 1
        /\ headingSum' = Add(headingSum, angular_vel)
        /\ zeroRun' = RunAfter(m = << 0, 0 >>, time)
        /\ lastTick' = time

\* commanded velocities, per second
UpdateOpenLoop ==
  \E m \in Commands, time \in Times :
    LET linear == Num(m[1] * TicksPerSec)
        angular == Num(m[2] * TicksPerSec)
    IN  /\ steps < MaxSteps
        /\ odom' = updateOpenLoop(odom, linear, angular, time)
        /\ call' = Call("updateOpenLoop", linear, angular, time, "void")
        /\ steps' = steps + 1
        /\ headingSum' = Add(headingSum, Num(m[2] * (time - odom.timestamp_)))
        /\ zeroRun' = 0
        /\ UNCHANGED lastTick

ResetOdometry ==
  /\ steps < MaxSteps
  /\ odom' = resetOdometry(odom)
  /\ call' = Call("resetOdometry", Zero, Zero, odom.timestamp_, "void")
  /\ steps' = steps + 1
  /\ headingSum' = Zero
  /\ zeroRun' = 0
  /\ UNCHANGED lastTick

SetWheelParams ==
  \E w \in WheelParams :
    /\ steps < MaxSteps
    /\ odom' = setWheelParams(odom, Num(w[1]), Num(w[2]), Num(w[3]))
    /\ call' = Call("setWheelParams", Zero, Zero, odom.timestamp_, "void")
    /\ steps' = steps + 1
    /\ zeroRun' = 0
    /\ UNCHANGED << headingSum, lastTick >>

SetVelocityRollingWindowSize ==
  \E n \in Windows :
    /\ steps < MaxSteps
    /\ odom' = setVelocityRollingWindowSize(odom, n)
    /\ call' = Call("setVelocityRollingWindowSize", Num(n), Zero,
                    odom.timestamp_, "void")
    /\ steps' = steps + 1
    /\ zeroRun' = 0
    /\ UNCHANGED << headingSum, lastTick >>

Next ==
  \/ InitCall
  \/ Update
  \/ UpdateFromVelocity
  \/ UpdateOpenLoop
  \/ ResetOdometry
  \/ SetWheelParams
  \/ SetVelocityRollingWindowSize

Spec == Init /\ [][Next]_vars

\* ---- properties ------------------------------------------------------------------
Fed(o1, o2) ==
  \/ o2.linear_accumulator_.count > o1.linear_accumulator_.count
  \/ o2.angular_accumulator_.count > o1.angular_accumulator_.count

\* C1: an update whose timestamp is less than 0.0001 s after the stored one
\* returns false and leaves the whole estimator state as it was, the
\* previous-sample cache included.
C1_RejectedUpdateMutatesNothing ==
  [][ (call'.name = "update" /\ call'.dt < MinDt)
        => (call'.ret = FALSE /\ odom' = odom) ]_vars

\* C2: an update whose timestamp is at least 0.0001 s after the stored one
\* returns true and leaves the state updateFromVelocity produces on the
\* differenced inputs (with the new samples stored as the previous ones).
C2_AcceptedUpdateIntegrates ==
  [][ (call'.name = "update" /\ call'.dt >= MinDt)
        => /\ call'.ret = TRUE
           /\ odom' = [ updateFromVelocity(odom,
                           Sub(call'.lin, odom.linear_old_pos_),
                           Sub(call'.ang, odom.angular_old_pos_),
                           call'.time)
                        EXCEPT !.linear_old_pos_ = call'.lin,
                               !.angular_old_pos_ = call'.ang ] ]_vars

\* C3: updateFromVelocity has no rejection threshold: whatever the timestamp
\* it returns true, integrates the pose with (linear_vel, angular_vel) as the
\* deltas (heading grows by angular_vel itself), adds one sample to each
\* accumulator, publishes the two rolling means, stores the timestamp and
\* leaves the previous-sample cache alone.
C3_UpdateFromVelocityContract ==
  [][ call'.name = "updateFromVelocity"
        => /\ call'.ret = TRUE
           /\ Pose(odom') = Pose(integrateExact(odom, call'.lin, call'.ang))
           /\ odom'.heading_ = Add(odom.heading_, call'.ang)
           /\ odom'.linear_accumulator_.count
                = odom.linear_accumulator_.count + 1
           /\ odom'.angular_accumulator_.count
                = odom.angular_accumulator_.count + 1
           /\ odom'.linear_ = getRollingMean(odom'.linear_accumulator_)
           /\ odom'.angular_ = getRollingMean(odom'.angular_accumulator_)
           /\ odom'.timestamp_ = call'.time
           /\ PreviousSample(odom') = PreviousSample(odom) ]_vars

\* C3 witness: an updateFromVelocity call with a timestamp earlier than the
\* stored one and a turning motion has returned.
C3_Witness ==
  /\ call.name = "updateFromVelocity"
  /\ call.dt < 0
  /\ call.ang # Zero
  /\ call.moved
  /\ call.ret = TRUE

\* C4: updateOpenLoop publishes exactly the commanded velocities, stores the
\* timestamp, integrates the pose with the displacement (linear*dt,
\* angular*dt), dt measured from the previously stored timestamp, and leaves
\* both accumulators and the previous-sample cache as they were.
C4_UpdateOpenLoopContract ==
  [][ call'.name = "updateOpenLoop"
        => LET dt == Seconds(call'.time, odom.timestamp_)
           IN  /\ Velocity(odom') = << call'.lin, call'.ang >>
               /\ odom'.timestamp_ = call'.time
               /\ Pose(odom') = Pose(integrateExact(odom, Mul(call'.lin, dt),
                                                    Mul(call'.ang, dt)))
               /\ odom'.heading_ = Add(odom.heading_, Mul(call'.ang, dt))
               /\ Accumulators(odom') = Accumulators(odom)
               /\ odom'.velocity_rolling_window_size_
                    = odom.velocity_rolling_window_size_
               /\ PreviousSample(odom') = PreviousSample(odom) ]_vars

\* C4 witness: updateOpenLoop has moved the pose over a positive dt while
\* the accumulators hold samples and the cache holds a sample.
C4_Witness ==
  /\ call.name = "updateOpenLoop"
  /\ call.dt > 0
  /\ call.moved
  /\ odom.linear_accumulator_.count > 0
  /\ odom.linear_old_pos_ # Zero

\* C5: resetOdometry zeroes x, y and heading and changes nothing else.
C5_ResetOdometryZeroesPoseOnly ==
  [][ call'.name = "resetOdometry"
        => /\ Pose(odom') = << NoTerms, NoTerms, Zero >>
           /\ Velocity(odom') = Velocity(odom)
           /\ odom'.timestamp_ = odom.timestamp_
           /\ Accumulators(odom') = Accumulators(odom)
           /\ PreviousSample(odom') = PreviousSample(odom)
           /\ WheelParamsOf(odom') = WheelParamsOf(odom)
           /\ odom'.velocity_rolling_window_size_
                = odom.velocity_rolling_window_size_ ]_vars

\* C5 witness: resetOdometry has zeroed a non-zero pose of an estimator
\* with a non-zero velocity state, a non-zero timestamp and fed accumulators.
C5_Witness ==
  /\ call.name = "resetOdometry"
  /\ call.moved
  /\ odom.linear_ # Zero
  /\ odom.timestamp_ # 0
  /\ odom.linear_accumulator_.count > 0

\* C6: setVelocityRollingWindowSize(n) replaces both accumulators by empty
\* ones of capacity n and leaves pose, velocity state, timestamp and
\* previous-sample cache alone; the velocity state the next
\* updateFromVelocity publishes is the mean of its own sample only.
C6_WindowReconfigurationDiscardsHistory ==
  [][ /\ call'.name = "setVelocityRollingWindowSize"
        => /\ odom'.velocity_rolling_window_size_ = call'.lin[1]
           /\ odom'.linear_accumulator_ = RollingMeanAccumulator(call'.lin[1])
           /\ odom'.angular_accumulator_ = RollingMeanAccumulator(call'.lin[1])
           /\ Pose(odom') = Pose(odom)
           /\ Velocity(odom') = Velocity(odom)
           /\ odom'.timestamp_ = odom.timestamp_
           /\ PreviousSample(odom') = PreviousSample(odom)
      /\ (call.name = "setVelocityRollingWindowSize"
          /\ call'.name = "updateFromVelocity")
        => LET dt == Seconds(call'.time, odom.timestamp_)
           IN  Velocity(odom') = << Div(call'.lin, dt), Div(call'.ang, dt) >>
    ]_vars

\* C6 witness: an updateFromVelocity right after a reconfiguration that
\* threw samples away has published a finite velocity.
C6_Witness ==
  /\ call.name = "updateFromVelocity"
  /\ call.prev = "setVelocityRollingWindowSize"
  /\ call.dropped > 0
  /\ IsFinite(odom.linear_)
  /\ odom.linear_ # Zero

\* C7: init(timestamp) empties both accumulators, keeping the configured
\* window size as their capacity, stores the timestamp and leaves pose,
\* velocity state and previous-sample cache alone; the next call measures
\* its dt from that timestamp.
C7_InitResetsAccumulatorsAndBaseline ==
  [][ /\ call'.name = "init"
        => /\ odom'.linear_accumulator_
                = RollingMeanAccumulator(odom.velocity_rolling_window_size_)
           /\ odom'.angular_accumulator_
                = RollingMeanAccumulator(odom.velocity_rolling_window_size_)
           /\ odom'.velocity_rolling_window_size_
                = odom.velocity_rolling_window_size_
           /\ odom'.timestamp_ = call'.time
           /\ Pose(odom') = Pose(odom)
           /\ Velocity(odom') = Velocity(odom)
           /\ PreviousSample(odom') = PreviousSample(odom)
      /\ (call.name = "init" /\ call'.name = "updateFromVelocity")
        => LET dt == Seconds(call'.time, call.time)
           IN  Velocity(odom') = << Div(call'.lin, dt), Div(call'.ang, dt) >>
      /\ (call.name = "init" /\ call'.name = "updateOpenLoop")
        => LET dt == Seconds(call'.time, call.time)
           IN  odom'.heading_ = Add(odom.heading_, Mul(call'.ang, dt))
      /\ (call.name = "init" /\ call'.name = "update"
          /\ call'.time - call.time < MinDt)
        => call'.ret = FALSE
    ]_vars

\* C7 witness: an updateFromVelocity right after an init that threw samples
\* away and moved the baseline off zero has published a finite velocity.
C7_Witness ==
  /\ call.name = "updateFromVelocity"
  /\ call.prev = "init"
  /\ call.dropped > 0
  /\ call.time - call.dt # 0
  /\ call.dt > 0
  /\ odom.linear_ # Zero

\* C8: every accepted zero-motion tick (update with unchanged positions or
\* updateFromVelocity(0, 0, t), each at least 0.0001 s after the one before)
\* leaves the pose unchanged, and after a run of at least window-size such
\* ticks the velocity state is (0, 0).
C8_ZeroMotionInvariant ==
  [][ zeroRun' > 0
        => /\ Pose(odom') = Pose(odom)
           /\ zeroRun' >= odom'.velocity_rolling_window_size_
                => Velocity(odom') = << Zero, Zero >> ]_vars

\* C9: heading is the unwrapped sum of the angular deltas of the motion
\* calls since construction or the last resetOdometry (angular_vel for
\* updateFromVelocity, angular*dt for updateOpenLoop, d_ang for an accepted
\* update), and only the motion calls and resetOdometry change the pose.
C9_HeadingIsSumOfDeltas ==
  /\ odom.heading_ = headingSum
  /\ call.moved => call.name \in { "update", "updateFromVelocity",
                                   "updateOpenLoop", "resetOdometry" }

\* C10: every sample fed to an accumulator was divided by a dt of at least
\* 0.0001 s.
C10_EverySampleDtAtLeastMin ==
  [][ Fed(odom, odom') => call'.dt >= MinDt ]_vars

\* C10 as amended: every sample fed to an accumulator is the delta of an
\* update or updateFromVelocity call divided by dt = timestamp - stored
\* timestamp; only update guards dt >= 0.0001 s, updateFromVelocity divides
\* by whatever dt the caller's timestamp gives, zero and negative included.
C10_SamplesDividedByCallDt ==
  [][ Fed(odom, odom')
        => LET dt == Seconds(call'.time, odom.timestamp_)
               upd == call'.name = "update"
               d_lin == IF upd THEN Sub(call'.lin, odom.linear_old_pos_)
                        ELSE call'.lin
               d_ang == IF upd THEN Sub(call'.ang, odom.angular_old_pos_)
                        ELSE call'.ang
               lbuf == odom'.linear_accumulator_.buf
               abuf == odom'.angular_accumulator_.buf
           IN  /\ call'.name \in { "update", "updateFromVelocity" }
               /\ upd => call'.dt >= MinDt
               /\ lbuf[Len(lbuf)] = Div(d_lin, dt)
               /\ abuf[Len(abuf)] = Div(d_ang, dt) ]_vars

\* C10 witness: updateFromVelocity called with the stored timestamp has fed
\* a sample divided by zero, and the published velocity is not finite.
C10_Witness ==
  /\ call.name = "updateFromVelocity"
  /\ call.dt = 0
  /\ call.lin # Zero
  /\ IsInf(odom.linear_)

====
